---- MODULE Spec2Model ----
(***************************************************************************)
(* Model of the fire tracking pipeline of fire_areas.py / fire_utils.py:   *)
(* the grid orchestrator process_fire_grid, the fire tracker               *)
(* create_shapefile / update_shapefile, and, each applied on its own to    *)
(* arguments drawn from bounded sets, fire_areas on one tile,              *)
(* generate_datetimes and split_bbox.                                      *)
(*                                                                         *)
(* Geometry is modelled on a finite set of ground cells: a polygon (or a   *)
(* multi-polygon union) is the set of cells it covers, intersects() is a   *)
(* shared cell, unary_union() is set union and the geodetic area is the    *)
(* sum of the cell areas.  Areas are integers in thousandths of a hectare  *)
(* (mha), so that round(x, 2) and np.isclose(.., atol=0.01) keep their     *)
(* arithmetic.  Timestamps are their index in the generated sequence; the  *)
(* ISO strings compare in the same order.                                  *)
(***************************************************************************)
EXTENDS Integers, Sequences, FiniteSets, TLC

\* ------------------------------------------------------------------ bounds
NumTimes == 3      \* len(times): timestamps of one run of process_fire_grid
NumTiles == 2      \* len(sub_boxes): sub-tiles of the grid
MaxFed == 4        \* polygons fed to the tracker, over all batches, in SpecTracker

\* --------------------------------------------------------------- constants
min_area_ha == 1000       \* 1.0 ha, default of calculate_polygon_areas
atol == 10                \* 0.01 ha, np.isclose(..., atol=0.01)
rtol_inv == 100000        \* 1 / rtol, np.isclose default rtol = 1e-05
STOP_AFTER == 2           \* consecutive_false >= 2 stops the run

VARIABLES
    pc,                   \* position of process_fire_grid
    i,                    \* index of the timestamp being processed (1-based)
    j,                    \* index of the next sub-tile of that timestamp
    all_false_this_time,
    polygons_this_time,   \* areas_this_time is Area() of each element
    consecutive_false,
    shapefile,            \* the persisted store at shapefile_path
    results_this_time,    \* history: what fire_areas gave for each sub-tile of timestamp i
    blank_run,            \* history: finished timestamps in a row whose every sub-tile was blank
    calls,                \* history: every tracker invocation, in order
    args,                 \* the arguments of the function applied on its own
    ret                   \* what that function returned or raised

vars == <<pc, i, j, all_false_this_time, polygons_this_time, consecutive_false,
          shapefile, results_this_time, blank_run, calls, args, ret>>

\* ---------------------------------------------------------------- geometry
\* Area of one ground cell in mha.  Cells 1..4 are used by the tracker-only
\* specification; cell 100*j + k lies in sub-tile j.
CellArea(c) ==
    CASE c = 1 -> 1000000        \* 1000 ha
      [] c = 2 -> 1504           \* 1.504 ha
      [] c = 3 -> 2507           \* 2.507 ha
      [] c = 4 -> 20             \* 0.02 ha sliver
      [] OTHER -> 1201 + 20 * (c % 100) + 3 * (c \div 100)

RECURSIVE SumArea(_)
SumArea(g) == IF g = {} THEN 0
              ELSE LET c == CHOOSE x \in g : TRUE
                   IN CellArea(c) + SumArea(g \ {c})

\* abs(geod.geometry_area_perimeter(geom)[0]) / 10_000, in mha
Area(g) == SumArea(g)

intersects(a, b) == a \cap b # {}

unary_union(a, b) == a \cup b

is_empty(g) == g = {}

Abs(x) == IF x < 0 THEN -x ELSE x

\* round(x, 2) on a value in mha: nearest multiple of 10 mha, ties to even
round2(x) ==
    LET q == x \div 10
        r == x % 10
    IN IF r < 5 THEN 10 * q
       ELSE IF r > 5 THEN 10 * (q + 1)
       ELSE IF q % 2 = 0 THEN 10 * q ELSE 10 * (q + 1)

\* np.isclose(a, b, atol=0.01): |a - b| <= atol + rtol * |b|
isclose(a, b) == Abs(a - b) - atol <= Abs(b) \div rtol_inv

\* --------------------------------------------------------------- the store
NoShapefile == [exists |-> FALSE, cols |-> <<>>, rows |-> <<>>]

ordered_cols == <<"fire", "time", "time_area", "acc_area", "geometry">>

\* create_geodataframe: one row per polygon, columns geometry, time, area
create_geodataframe(polygons, time) ==
    [k \in 1..Len(polygons) |->
        [geometry |-> polygons[k], time |-> time, area |-> Area(polygons[k])]]

create_fire_id == 1

\* create_shapefile: every row of the first batch is written with fire = 1
create_shapefile(new_gdf) ==
    [exists |-> TRUE,
     cols |-> <<"geometry", "time", "area", "fire", "time_area", "acc_area">>,
     rows |-> [k \in 1..Len(new_gdf) |->
                 [geometry |-> new_gdf[k].geometry,
                  time |-> new_gdf[k].time,
                  area |-> new_gdf[k].area,
                  fire |-> create_fire_id,
                  time_area |-> round2(new_gdf[k].area),
                  acc_area |-> round2(new_gdf[k].area)]]]

\* ghost log of create_shapefile: row k of the batch lands at position k
create_msgs(new_gdf) ==
    [k \in 1..Len(new_gdf) |-> [kind |-> "created", fire |-> create_fire_id, at |-> k - 1]]

\* existing_gdf["fire"].unique(): the identities in order of first appearance
RECURSIVE unique(_)
unique(s) ==
    IF s = <<>> THEN <<>>
    ELSE LET front == unique(SubSeq(s, 1, Len(s) - 1))
             x == s[Len(s)]
         IN IF \E k \in 1..Len(front) : front[k] = x THEN front ELSE Append(front, x)

fire_column(rows) == [k \in 1..Len(rows) |-> rows[k].fire]

\* existing_gdf["fire"].max()
max_fire(rows) == CHOOSE m \in {rows[k].fire : k \in 1..Len(rows)} :
                     \A k \in 1..Len(rows) : rows[k].fire <= m

\* updated_gdf[updated_gdf["fire"] == fire_id].sort_values("time").iloc[-1]:
\* the sort keeps the row order of equal timestamps (insertion sort of the
\* short object column), so the last record is the latest row of the
\* greatest timestamp.
last_record(updated_gdf, fire_id) ==
    LET hist == {k \in 1..Len(updated_gdf) : updated_gdf[k].fire = fire_id}
        k == CHOOSE a \in hist : \A b \in hist :
                 \/ updated_gdf[b].time < updated_gdf[a].time
                 \/ (updated_gdf[b].time = updated_gdf[a].time /\ b <= a)
    IN updated_gdf[k]

\* mutant: the new entry takes the place of the last row
concat_overwrite(updated_gdf, new_entry) ==
    Append(SubSeq(updated_gdf, 1, Len(updated_gdf) - 1), new_entry)

\* pd.concat([updated_gdf, new_entry], ignore_index=True)
concat(updated_gdf, new_entry) == Append(updated_gdf, new_entry)

\* mutant: time_area as the growth of the fire, the overlap left out
merge_time_area_growth(new_geom, fire_geom) ==
    round2(Area(unary_union(fire_geom, new_geom)) - Area(fire_geom))

\* time_area of a merged record: area of the new polygon alone, rounded
merge_time_area(new_geom, fire_geom) == round2(Area(new_geom))

\* the new_entry of the merge branch
merge_entry(fire_id, time_tag, new_geom, fire_geom) ==
    [time |-> time_tag,
     fire |-> fire_id,
     geometry |-> unary_union(fire_geom, new_geom),
     time_area |-> merge_time_area(new_geom, fire_geom),
     acc_area |-> round2(Area(unary_union(fire_geom, new_geom)))]

\* the new_entry of the new-fire branch: the areas are not rounded here
new_fire_entry(next_fire_id, time_tag, new_geom) ==
    [time |-> time_tag,
     fire |-> next_fire_id,
     geometry |-> new_geom,
     time_area |-> Area(new_geom),
     acc_area |-> Area(new_geom)]

\* the no-change test of the merge branch
no_change(prev_acc_area, acc_area_ha) == isclose(prev_acc_area, acc_area_ha)

\* for fire_id in existing_gdf["fire"].unique(): ... break on the first
\* identity whose last record intersects the new polygon.  Returns the
\* updated frame, found_overlap and the message printed.
RECURSIVE scan_fires(_, _, _, _)
scan_fires(fire_ids, updated_gdf, new_geom, time_tag) ==
    IF fire_ids = <<>>
    THEN [found_overlap |-> FALSE, updated_gdf |-> updated_gdf,
          msg |-> [kind |-> "none", fire |-> 0, at |-> Len(updated_gdf)]]
    ELSE LET fire_id == Head(fire_ids)
             last == last_record(updated_gdf, fire_id)
             fire_geom == last.geometry
         IN IF intersects(new_geom, fire_geom)
            THEN LET entry == merge_entry(fire_id, time_tag, new_geom, fire_geom)
                 IN IF no_change(last.acc_area, entry.acc_area)
                    THEN [found_overlap |-> TRUE, updated_gdf |-> updated_gdf,
                          msg |-> [kind |-> "ignored", fire |-> fire_id,
                                   at |-> Len(updated_gdf)]]
                    ELSE [found_overlap |-> TRUE,
                          updated_gdf |-> concat(updated_gdf, entry),
                          msg |-> [kind |-> "updated", fire |-> fire_id,
                                   at |-> Len(updated_gdf)]]
            ELSE scan_fires(Tail(fire_ids), updated_gdf, new_geom, time_tag)

\* mutant: the identities are scanned from the greatest down
fire_ids_descending(existing_gdf, updated_gdf) ==
    LET ids == unique(fire_column(existing_gdf))
    IN [k \in 1..Len(ids) |-> ids[Len(ids) + 1 - k]]

\* mutant: the identities are those of the frame as updated so far
fire_ids_of_updated(existing_gdf, updated_gdf) == unique(fire_column(updated_gdf))

\* existing_gdf["fire"].unique() of the inner loop: the identities of the
\* frame read at the start, whatever updated_gdf has gained since
fire_ids_to_scan(existing_gdf, updated_gdf) == unique(fire_column(existing_gdf))

\* for idx, new_row in new_gdf.iterrows(): one pass of the loop body per row.
\* st = [updated_gdf, next_fire_id, msgs]
RECURSIVE iterrows(_, _, _)
iterrows(new_gdf, existing_gdf, st) ==
    IF new_gdf = <<>> THEN st
    ELSE LET new_row == Head(new_gdf)
             new_geom == new_row.geometry
             time_tag == new_row.time
         IN IF is_empty(new_geom)
            THEN iterrows(Tail(new_gdf), existing_gdf,
                     [st EXCEPT !.msgs = Append(@, [kind |-> "skipped", fire |-> 0,
                                                    at |-> Len(st.updated_gdf)])])
            ELSE LET fire_ids == fire_ids_to_scan(existing_gdf, st.updated_gdf)
                     scan == scan_fires(fire_ids, st.updated_gdf, new_geom, time_tag)
                 IN IF scan.found_overlap
                    THEN iterrows(Tail(new_gdf), existing_gdf,
                             [st EXCEPT !.updated_gdf = scan.updated_gdf,
                                        !.msgs = Append(@, scan.msg)])
                    ELSE iterrows(Tail(new_gdf), existing_gdf,
                             [updated_gdf |->
                                  concat(st.updated_gdf,
                                         new_fire_entry(st.next_fire_id, time_tag, new_geom)),
                              next_fire_id |-> st.next_fire_id + 1,
                              msgs |-> Append(st.msgs,
                                         [kind |-> "new", fire |-> st.next_fire_id,
                                          at |-> Len(st.updated_gdf)])])

\* updated_gdf = updated_gdf[ordered_cols]: every other column is dropped
select_ordered(rows) ==
    [k \in 1..Len(rows) |->
        [fire |-> rows[k].fire, time |-> rows[k].time,
         time_area |-> rows[k].time_area, acc_area |-> rows[k].acc_area,
         geometry |-> rows[k].geometry]]

\* update_shapefile, from gpd.read_file to to_file.  A store written by
\* create_shapefile or update_shapefile always has the 'fire' column, so the
\* renaming of lines 312-316 does not apply.
update_run(existing, new_gdf) ==
    iterrows(new_gdf, existing.rows,
             [updated_gdf |-> existing.rows,
              next_fire_id |-> max_fire(existing.rows) + 1,
              msgs |-> <<>>])

update_shapefile(existing, new_gdf) ==
    [exists |-> TRUE,
     cols |-> ordered_cols,
     rows |-> select_ordered(update_run(existing, new_gdf).updated_gdf)]

\* the messages update_shapefile prints, one per batch row
update_msgs(existing, new_gdf) == update_run(existing, new_gdf).msgs

\* lines 119-122 of process_fire_grid: create the store or update it
tracker_write(store, polygons, time) ==
    IF ~store.exists
    THEN create_shapefile(create_geodataframe(polygons, time))
    ELSE update_shapefile(store, create_geodataframe(polygons, time))

tracker_msgs(store, polygons, time) ==
    IF ~store.exists
    THEN create_msgs(create_geodataframe(polygons, time))
    ELSE update_msgs(store, create_geodataframe(polygons, time))

tracker_op(store) == IF ~store.exists THEN "create" ELSE "update"

\* ------------------------------------------------------- process_fire_grid
\* The polygon a detection in sub-tile tile yields at timestamp t: it lies in
\* the sub-tile's own sub-box and grows by one cell per timestamp.
TilePoly(t, tile) == {100 * tile + k : k \in 1..t}

\* What a call fire_areas(sbox, time) can give back to process_fire_grid:
\* 'false_image' (line 175), None (lines 188, 194), (polygons, areas, crs)
\* (line 196), or an exception raised on the way (WebMapService, the
\* unbound img of get_wms_image after a failed request, load_image,
\* detect_areas).
fire_areas_results(t, tile) ==
    { [kind |-> "false_image", polygons |-> <<>>],
      [kind |-> "none", polygons |-> <<>>],
      [kind |-> "error", polygons |-> <<>>],
      [kind |-> "polygons", polygons |-> <<TilePoly(t, tile)>>] }

\* mutant: the new polygons go in front
extend_front(list, items) == items \o list

\* polygons_this_time.extend(polygons)
extend(list, items) == list \o items

\* all_false_this_time after one sub-tile, lines 98-109
flag_after(res, flag) ==
    CASE res.kind = "polygons" -> FALSE
      [] res.kind = "false_image" -> TRUE
      [] res.kind = "none" -> FALSE
      [] res.kind = "error" -> FALSE

\* mutant: a failing sub-tile discards what the timestamp has gathered
polygons_after_reset(res, polygons) ==
    IF res.kind = "polygons" THEN extend(polygons, res.polygons)
    ELSE IF res.kind = "error" THEN <<>> ELSE polygons

\* polygons_this_time after one sub-tile, lines 98-109
polygons_after(res, polygons) ==
    IF res.kind = "polygons" THEN extend(polygons, res.polygons) ELSE polygons

\* mutant: one blank timestamp more is needed
stop_early_late(count) == count > STOP_AFTER

\* consecutive_false >= 2
stop_early(count) == count >= STOP_AFTER

NoArgs == [fn |-> "none"]

NoReturn == [called |-> FALSE]

\* process_fire_grid before its first timestamp, lines 80-84
InitGrid ==
    /\ pc = "subtile"
    /\ i = 1
    /\ j = 1
    /\ all_false_this_time = TRUE
    /\ polygons_this_time = <<>>
    /\ consecutive_false = 0
    /\ shapefile = NoShapefile
    /\ results_this_time = <<>>
    /\ blank_run = 0
    /\ calls = <<>>

Init ==
    /\ InitGrid
    /\ args = NoArgs
    /\ ret = NoReturn

\* one pass of the sub-tile loop, lines 94-109
SubTile ==
    /\ pc = "subtile"
    /\ \E res \in fire_areas_results(i, j) :
          /\ all_false_this_time' = flag_after(res, all_false_this_time)
          /\ polygons_this_time' = polygons_after(res, polygons_this_time)
          /\ results_this_time' = Append(results_this_time, res)
    /\ j' = j + 1
    /\ pc' = IF j = NumTiles THEN "track" ELSE "subtile"
    /\ UNCHANGED <<i, consecutive_false, shapefile, blank_run, calls>>
    /\ UNCHANGED <<args, ret>>

CallRecord(ok) ==
    [time |-> i,
     op |-> tracker_op(shapefile),
     batch |-> polygons_this_time,
     ok |-> ok,
     seen |-> Len(results_this_time),
     msgs |-> IF ok THEN tracker_msgs(shapefile, polygons_this_time, i) ELSE <<>>]

\* lines 111-122 with a batch: the store is created or updated
Track ==
    /\ pc = "track"
    /\ polygons_this_time # <<>>
    /\ shapefile' = tracker_write(shapefile, polygons_this_time, i)
    /\ calls' = Append(calls, CallRecord(TRUE))
    /\ pc' = "classify"
    /\ UNCHANGED <<i, j, all_false_this_time, polygons_this_time, consecutive_false,
                   results_this_time, blank_run>>
    /\ UNCHANGED <<args, ret>>

\* lines 111-122 without a batch: the tracker is not called
NoTrack ==
    /\ pc = "track"
    /\ polygons_this_time = <<>>
    /\ pc' = "classify"
    /\ UNCHANGED <<i, j, all_false_this_time, polygons_this_time, consecutive_false,
                   shapefile, results_this_time, blank_run, calls>>
    /\ UNCHANGED <<args, ret>>

\* mutant: the tracker's exception is caught and the run goes on
PersistenceErrorSwallowed ==
    /\ pc = "track"
    /\ polygons_this_time # <<>>
    /\ calls' = Append(calls, CallRecord(FALSE))
    /\ pc' = "classify"
    /\ UNCHANGED <<i, j, all_false_this_time, polygons_this_time, consecutive_false,
                   shapefile, results_this_time, blank_run>>
    /\ UNCHANGED <<args, ret>>

\* gpd.read_file or to_file raises inside the tracker: the call is outside
\* the try of the sub-tile loop, so the exception leaves process_fire_grid
PersistenceError ==
    /\ pc = "track"
    /\ polygons_this_time # <<>>
    /\ calls' = Append(calls, CallRecord(FALSE))
    /\ pc' = "raised"
    /\ UNCHANGED <<i, j, all_false_this_time, polygons_this_time, consecutive_false,
                   shapefile, results_this_time, blank_run>>
    /\ UNCHANGED <<args, ret>>

AllBlank(results) == \A k \in 1..Len(results) : results[k].kind = "false_image"

\* lines 124-128
Classify ==
    /\ pc = "classify"
    /\ consecutive_false' = IF all_false_this_time THEN consecutive_false + 1 ELSE 0
    /\ blank_run' = IF AllBlank(results_this_time) THEN blank_run + 1 ELSE 0
    /\ pc' = "check_stop"
    /\ UNCHANGED <<i, j, all_false_this_time, polygons_this_time, shapefile,
                   results_this_time, calls>>
    /\ UNCHANGED <<args, ret>>

\* lines 130-132: break
StopEarly ==
    /\ pc = "check_stop"
    /\ stop_early(consecutive_false)
    /\ pc' = "done"
    /\ UNCHANGED <<i, j, all_false_this_time, polygons_this_time, consecutive_false,
                   shapefile, results_this_time, blank_run, calls>>
    /\ UNCHANGED <<args, ret>>

\* line 86 and lines 89-92: the next timestamp, with its fresh accumulators
NextTime ==
    /\ pc = "check_stop"
    /\ ~stop_early(consecutive_false)
    /\ i < NumTimes
    /\ i' = i + 1
    /\ j' = 1
    /\ all_false_this_time' = TRUE
    /\ polygons_this_time' = <<>>
    /\ results_this_time' = <<>>
    /\ pc' = "subtile"
    /\ UNCHANGED <<consecutive_false, shapefile, blank_run, calls>>
    /\ UNCHANGED <<args, ret>>

\* line 86: the timestamps are exhausted
Finish ==
    /\ pc = "check_stop"
    /\ ~stop_early(consecutive_false)
    /\ i = NumTimes
    /\ pc' = "done"
    /\ UNCHANGED <<i, j, all_false_this_time, polygons_this_time, consecutive_false,
                   shapefile, results_this_time, blank_run, calls>>
    /\ UNCHANGED <<args, ret>>

Next == SubTile \/ Track \/ NoTrack \/ PersistenceError \/ Classify
        \/ StopEarly \/ NextTime \/ Finish

Spec == Init /\ [][Next]_vars

\* ------------------------------------------------- the tracker on its own
\* The polygons fed to the tracker: A, A plus a sliver, B, B grown by C's
\* cell, that cell alone, and a polygon over A and B.
Shapes == { {1}, {1, 4}, {2}, {2, 3}, {3}, {1, 2} }

Fed == LET RECURSIVE count(_)
           count(k) == IF k = 0 THEN 0 ELSE Len(calls[k].batch) + count(k - 1)
       IN count(Len(calls))

Batches(n) == UNION { [1..len -> Shapes] : len \in 1..n }

\* one tracker write as process_fire_grid makes it (lines 111-122), with a
\* batch whose polygons passed the minimum-area filter, at the next timestamp
Feed ==
    /\ Fed < MaxFed
    /\ \E batch \in Batches(MaxFed - Fed) :
          LET t == Len(calls) + 1
          IN /\ \A k \in 1..Len(batch) : Area(batch[k]) >= min_area_ha
             /\ shapefile' = tracker_write(shapefile, batch, t)
             /\ calls' = Append(calls,
                            [time |-> t, op |-> tracker_op(shapefile), batch |-> batch,
                             ok |-> TRUE, seen |-> 0,
                             msgs |-> tracker_msgs(shapefile, batch, t)])
    /\ UNCHANGED <<pc, i, j, all_false_this_time, polygons_this_time,
                   consecutive_false, results_this_time, blank_run>>
    /\ UNCHANGED <<args, ret>>

NextTracker == Feed

SpecTracker == Init /\ [][NextTracker]_vars

\* ------------------------------------------------- fire_areas on one tile
MaxContours == 2   \* contours detect_areas hands to calculate_polygon_areas

\* params.update(detection_params): the keys of e replace those of d
dict_update(d, e) ==
    [k \in DOMAIN d \cup DOMAIN e |-> IF k \in DOMAIN e THEN e[k] ELSE d[k]]

\* the defaults of fire_areas; blur_sigma and threshold_value in tenths
default_params ==
    [method |-> "hsv", upscale_factor |-> 4, blur_sigma |-> 30,
     threshold_value |-> 8, tol |-> 40]

\* the names detect_areas declares
detect_areas_parameters ==
    {"rgb", "transform", "points", "upscale_factor", "blur_sigma", "threshold_value"}

\* the keywords fire_areas passes to detect_areas, besides rgb and transform
detect_areas_keywords ==
    {"method", "upscale_factor", "blur_sigma", "threshold_value", "tol"}

\* a Python call binds its keywords to declared names, or raises TypeError
binds(keywords, parameters) == keywords \subseteq parameters

\* poly.simplify(simplify_tolerance, preserve_topology=True): detail below
\* the tolerance goes, the polygon never collapses
simplify(g) == IF g \ {4} = {} THEN g ELSE g \ {4}

\* calculate_polygon_areas: polygons and areas are appended together
RECURSIVE calculate_polygon_areas(_, _)
calculate_polygon_areas(contours, min_area) ==
    IF contours = <<>> THEN [polygons |-> <<>>, areas |-> <<>>]
    ELSE LET done == calculate_polygon_areas(SubSeq(contours, 1, Len(contours) - 1),
                                             min_area)
             poly == contours[Len(contours)]
             poly_simple == simplify(poly.cells)
             area_ha == Area(poly_simple)
         IN IF ~poly.valid \/ is_empty(poly.cells) THEN done
            ELSE IF is_empty(poly_simple) THEN done
            ELSE IF area_ha >= min_area
                 THEN [polygons |-> Append(done.polygons, poly_simple),
                       areas |-> Append(done.areas, area_ha)]
                 ELSE done

raise(error) == [kind |-> "error", error |-> error, polygons |-> <<>>, areas |-> <<>>]

\* lines 186-196 of fire_areas: from the contours to the value returned.
\* calculate_polygon_areas is called without min_area_ha, whatever params holds
polygons_of(contours, params) ==
    IF contours = <<>>
    THEN [kind |-> "none", error |-> "", polygons |-> <<>>, areas |-> <<>>]
    ELSE LET pa == calculate_polygon_areas(contours, min_area_ha)
         IN IF pa.polygons = <<>>
            THEN [kind |-> "none", error |-> "", polygons |-> <<>>, areas |-> <<>>]
            ELSE [kind |-> "polygons", error |-> "",
                  polygons |-> pa.polygons, areas |-> pa.areas]

\* fire_areas(bbox, date_str, detection_params) on a tile the service answers
\* with: an error of the service, a failed GetMap (get_wms_image prints the
\* exception and returns its unbound img), bytes load_image cannot open, a
\* blank image, or an image in which detect_areas would find tile.contours
fire_areas(tile, detection_params) ==
    LET params == dict_update(default_params, detection_params)
    IN CASE tile.kind = "wms_error" -> raise("ServiceException")
         [] tile.kind = "request_failed" -> raise("UnboundLocalError")
         [] tile.kind = "undecodable" -> raise("RasterioIOError")
         [] tile.kind = "blank" ->
                [kind |-> "false_image", error |-> "", polygons |-> <<>>, areas |-> <<>>]
         [] tile.kind = "image" ->
                IF ~binds(detect_areas_keywords, detect_areas_parameters)
                THEN raise("TypeError")
                ELSE polygons_of(tile.contours, params)

\* contours: B, C, B with a sliver, the sliver, and a self-crossing ring
ContourShapes ==
    { [cells |-> {2}, valid |-> TRUE], [cells |-> {3}, valid |-> TRUE],
      [cells |-> {2, 4}, valid |-> TRUE], [cells |-> {4}, valid |-> TRUE],
      [cells |-> {3}, valid |-> FALSE] }

Tiles ==
    { [kind |-> k, contours |-> <<>>] :
          k \in {"wms_error", "request_failed", "undecodable", "blank"} }
    \cup { [kind |-> "image", contours |-> cs] :
               cs \in UNION { [1..n -> ContourShapes] : n \in 0..MaxContours } }

\* the dictionaries a caller can pass: any of the keys, the QGIS dialog's
\* min_area_ha among them (0.1 ha or 3 ha)
DetectionParams ==
    LET full == [method : {"hsv", "rgb", "combined"}, upscale_factor : {1, 4},
                 blur_sigma : {55}, threshold_value : {6}, tol : {0, 255},
                 min_area_ha : {100, 3000}]
    IN { [k \in K |-> f[k]] :
             f \in full, K \in SUBSET (DOMAIN default_params \cup {"min_area_ha"}) }

InitFireAreas ==
    /\ InitGrid
    /\ args \in [fn : {"fire_areas"}, tile : Tiles, detection_params : DetectionParams]
    /\ ret = NoReturn

\* res = fire_areas(sbox, time, detection_params=detection_params)
FireAreasCall ==
    /\ ~ret.called
    /\ ret' = [called |-> TRUE, fn |-> "fire_areas",
               value |-> fire_areas(args.tile, args.detection_params)]
    /\ UNCHANGED <<pc, i, j, all_false_this_time, polygons_this_time, consecutive_false,
                   shapefile, results_this_time, blank_run, calls, args>>

\* lines 186-196 on their own, from the contours detect_areas returns
PolygonsOfCall ==
    /\ ~ret.called
    /\ args.tile.kind = "image"
    /\ ret' = [called |-> TRUE, fn |-> "polygons_of",
               value |-> polygons_of(args.tile.contours,
                                     dict_update(default_params, args.detection_params))]
    /\ UNCHANGED <<pc, i, j, all_false_this_time, polygons_this_time, consecutive_false,
                   shapefile, results_this_time, blank_run, calls, args>>

NextFireAreas == FireAreasCall \/ PolygonsOfCall

SpecFireAreas == InitFireAreas /\ [][NextFireAreas]_vars

\* ------------------------------------------------------ generate_datetimes
MaxSpan == 12      \* minutes between the earliest start and the latest end
MaxStep == 5       \* greatest step_minutes

\* datetime.isoformat(): a datetime, counted in minutes, as the text fields
\* day, hour and minute
isoformat(t) == <<t \div 1440, (t \div 60) % 24, t % 60>>

\* datetime.fromisoformat on such a text, without its suffix
fromisoformat(s) == 1440 * s[1] + 60 * s[2] + s[3]

\* mutant: the loop leaves before current reaches end
loop_test_strict(current, end) == current < end

\* while current <= end
loop_test(current, end) == current <= end

\* the while loop of generate_datetimes, from current with times gathered
RECURSIVE datetimes_loop(_, _, _, _)
datetimes_loop(current, end, step_minutes, times) ==
    IF loop_test(current, end)
    THEN datetimes_loop(current + step_minutes, end, step_minutes,
                        Append(times, isoformat(current) \o <<"Z">>))
    ELSE times

generate_datetimes(start, end, step_minutes) ==
    datetimes_loop(start, end, step_minutes, <<>>)

\* start and end lie around a midnight; step_minutes is a positive integer
Datetimes == {1430 + k : k \in 0..MaxSpan}

InitTimes ==
    /\ InitGrid
    /\ args \in [fn : {"generate_datetimes"}, start : Datetimes, end : Datetimes,
                 step_minutes : 1..MaxStep]
    /\ args.start <= args.end
    /\ ret = NoReturn

\* times = generate_datetimes(start, end, step_minutes)
GenerateDatetimes ==
    /\ ~ret.called
    /\ ret' = [called |-> TRUE, fn |-> "generate_datetimes",
               value |-> generate_datetimes(args.start, args.end, args.step_minutes)]
    /\ UNCHANGED <<pc, i, j, all_false_this_time, polygons_this_time, consecutive_false,
                   shapefile, results_this_time, blank_run, calls, args>>

NextTimes == GenerateDatetimes

SpecTimes == InitTimes /\ [][NextTimes]_vars

\* -------------------------------------------------------------- split_bbox
MantissaBits == 12 \* significant bits of the floating-point format
MaxCoord == 4      \* greatest coordinate, in degrees
MaxGrid == 3       \* greatest n_rows and n_cols

\* Coordinates are non-negative binary floating-point numbers with
\* MantissaBits significant bits, held as integers in units of
\* 2^-(MantissaBits + 2) degree: with boxes on whole degrees and up to 8
\* rows and columns every result of the operations below is a whole number
\* of units.
Degree == 2 ^ (MantissaBits + 2)

\* the position of the leading bit of v >= 1
RECURSIVE top_bit(_)
top_bit(v) == IF v < 2 THEN 0 ELSE 1 + top_bit(v \div 2)

\* the spacing of the floating-point numbers around v
ulp(v) ==
    IF v < 2 ^ MantissaBits THEN 1 ELSE 2 ^ (top_bit(v) - MantissaBits + 1)

\* x / y rounded to a whole number, ties to even
round_half_even(x, y) ==
    LET q == x \div y
        r == x % y
    IN IF 2 * r < y THEN q
       ELSE IF 2 * r > y THEN q + 1
       ELSE IF q % 2 = 0 THEN q ELSE q + 1

\* the float nearest to a / n, ties to even: the quotient of a float division
fl_div(a, n) ==
    LET spacing == ulp(a \div n)
    IN spacing * round_half_even(a, n * spacing)

\* the float nearest to v: the result of a float addition, subtraction or
\* multiplication whose exact value is v
fl(v) == fl_div(v, 1)

\* mutant: the origin of the next column
origin_next(xmin, col, dx) == fl(xmin + fl((col + 1) * dx))

\* x0 = xmin + j * dx
origin(xmin, col, dx) == fl(xmin + fl(col * dx))

\* for j in range(n_cols): the sub-boxes of row i (row) from column j (col) on
RECURSIVE split_cols(_, _, _, _, _, _, _)
split_cols(xmin, ymin, dx, dy, row, col, n_cols) ==
    IF col >= n_cols THEN <<>>
    ELSE LET x0 == origin(xmin, col, dx)
             y0 == origin(ymin, row, dy)
             x1 == fl(x0 + dx)
             y1 == fl(y0 + dy)
         IN <<<<x0, y0, x1, y1>>>> \o split_cols(xmin, ymin, dx, dy, row, col + 1, n_cols)

\* for i in range(n_rows): the sub-boxes from row i (row) on
RECURSIVE split_rows(_, _, _, _, _, _, _)
split_rows(xmin, ymin, dx, dy, row, n_rows, n_cols) ==
    IF row >= n_rows THEN <<>>
    ELSE split_cols(xmin, ymin, dx, dy, row, 0, n_cols)
            \o split_rows(xmin, ymin, dx, dy, row + 1, n_rows, n_cols)

split_bbox(bbox, n_rows, n_cols) ==
    LET xmin == bbox[1]
        ymin == bbox[2]
        xmax == bbox[3]
        ymax == bbox[4]
        dx == fl_div(fl(xmax - xmin), n_cols)
        dy == fl_div(fl(ymax - ymin), n_rows)
    IN split_rows(xmin, ymin, dx, dy, 0, n_rows, n_cols)

\* bounding boxes on whole degrees, lon_min < lon_max and lat_min < lat_max
BBoxes ==
    { <<Degree * xmin, Degree * ymin, Degree * xmax, Degree * ymax>> :
          xmin \in 0..MaxCoord, ymin \in 0..MaxCoord,
          xmax \in 0..MaxCoord, ymax \in 0..MaxCoord }

InitSplit ==
    /\ InitGrid
    /\ args \in [fn : {"split_bbox"}, bbox : BBoxes,
                 n_rows : 1..MaxGrid, n_cols : 1..MaxGrid]
    /\ args.bbox[1] < args.bbox[3]
    /\ args.bbox[2] < args.bbox[4]
    /\ ret = NoReturn

\* sub_boxes = split_bbox(bbox, n_rows, n_cols)
SplitBBox ==
    /\ ~ret.called
    /\ ret' = [called |-> TRUE, fn |-> "split_bbox",
               value |-> split_bbox(args.bbox, args.n_rows, args.n_cols)]
    /\ UNCHANGED <<pc, i, j, all_false_this_time, polygons_this_time, consecutive_false,
                   shapefile, results_this_time, blank_run, calls, args>>

NextSplit == SplitBBox

SpecSplit == InitSplit /\ [][NextSplit]_vars

\* ------------------------------------------------------------- the claims
Rows == shapefile.rows

PairwiseDisjoint(batch) ==
    \A a, b \in 1..Len(batch) : a # b => ~intersects(batch[a], batch[b])

AllBatchesDisjoint == \A c \in 1..Len(calls) : PairwiseDisjoint(calls[c].batch)

\* The current record of fire f among rows: its latest-timestamped record,
\* the later row when several carry that timestamp.
CurrentIndex(rows, f) ==
    CHOOSE a \in 1..Len(rows) :
        /\ rows[a].fire = f
        /\ \A b \in 1..Len(rows) :
              (rows[b].fire = f /\ b # a) =>
                  \/ rows[b].time < rows[a].time
                  \/ (rows[b].time = rows[a].time /\ b < a)

CurrentGeometry(rows, f) == rows[CurrentIndex(rows, f)].geometry

CurrentAccArea(rows, f) == rows[CurrentIndex(rows, f)].acc_area

FiresIn(rows) == {rows[k].fire : k \in 1..Len(rows)}

MaxIdentity(rows) ==
    IF rows = <<>> THEN 0
    ELSE CHOOSE m \in FiresIn(rows) : \A f \in FiresIn(rows) : f <= m

\* the store as it was when element e of call c was about to be processed
StoreBefore(c, e) == SubSeq(Rows, 1, calls[c].msgs[e].at)

\* the length of the store when element e of call c had been processed
LengthAfter(c, e) ==
    IF e < Len(calls[c].msgs) THEN calls[c].msgs[e + 1].at
    ELSE IF c < Len(calls) /\ calls[c + 1].ok THEN calls[c + 1].msgs[1].at
    ELSE Len(Rows)

\* C1: for every fire identity the acc_area values of its records, in
\* timestamp order, are non-decreasing, after any sequence of tracker writes
\* with batches of mutually disjoint polygons (first batch of any size).
C1_AccAreaMonotone ==
    AllBatchesDisjoint =>
        \A a, b \in 1..Len(Rows) :
            (Rows[a].fire = Rows[b].fire /\ Rows[a].time < Rows[b].time)
                => Rows[a].acc_area <= Rows[b].acc_area

\* C2: feeding the batch that created the store a second time, at a later
\* timestamp, appends no record: the store keeps exactly the records it had.
C2_SameBatchNoNewRecord ==
    [][ ( /\ Len(calls) = 1
          /\ Len(calls') = 2
          /\ calls'[2].batch = calls[1].batch
          /\ PairwiseDisjoint(calls[1].batch) )
        => select_ordered(shapefile'.rows) = select_ordered(shapefile.rows) ]_vars

\* C3: a batch element that intersects the current geometry of no fire in
\* the store is recorded under the identity (greatest identity in the store
\* + 1), 1 when the store is empty or absent.
C3_NewIdentityAllocated ==
    \A c \in 1..Len(calls) : \A e \in 1..Len(calls[c].msgs) :
        LET P == calls[c].batch[e]
            at == calls[c].msgs[e].at
            before == StoreBefore(c, e)
        IN (\A f \in FiresIn(before) : ~intersects(P, CurrentGeometry(before, f)))
            => /\ at < Len(Rows)
               /\ Rows[at + 1].geometry = P
               /\ Rows[at + 1].fire = MaxIdentity(before) + 1

\* C4: a tracker update keeps every record of the store, unchanged in fire,
\* time, time_area, acc_area and geometry and in the same order, and only
\* appends after them.
C4_AppendOnly ==
    [][ shapefile.exists =>
          /\ shapefile'.exists
          /\ Len(shapefile'.rows) >= Len(shapefile.rows)
          /\ SubSeq(select_ordered(shapefile'.rows), 1, Len(shapefile.rows))
                 = select_ordered(shapefile.rows) ]_vars

\* an update has appended records after those the store already had
C4_Witness ==
    /\ Len(calls) >= 2
    /\ calls[Len(calls)].op = "update"
    /\ \E e \in 1..Len(calls[Len(calls)].msgs) :
          calls[Len(calls)].msgs[e].kind = "updated"
    /\ \E e \in 1..Len(calls[Len(calls)].msgs) :
          calls[Len(calls)].msgs[e].kind = "new"

\* C5: a timestamp is classified blank (the counter is incremented) only
\* if every sub-tile of the timestamp returned 'false_image'.
C5_BlankOnlyIfAllBlank ==
    (pc = "check_stop" /\ consecutive_false > 0) => AllBlank(results_this_time)

\* C6: once two timestamps in a row were blank in every sub-tile, the run
\* stops there without an error: no later timestamp is entered, no sub-tile
\* is fetched and the tracker is not written.
C6_EarlyStop ==
    blank_run >= 2 =>
        /\ pc \in {"check_stop", "done"}
        /\ \A c \in 1..Len(calls) : calls[c].time < i - 1

\* the run ended after two blank timestamps with timestamps left over
C6_Witness == pc = "done" /\ blank_run >= 2 /\ i < NumTimes

\* the polygons of all sub-tiles of a timestamp, in sub-tile order
RECURSIVE BatchOf(_)
BatchOf(results) ==
    IF results = <<>> THEN <<>>
    ELSE BatchOf(SubSeq(results, 1, Len(results) - 1))
            \o (IF results[Len(results)].kind = "polygons"
                THEN results[Len(results)].polygons ELSE <<>>)

CallsAt(t) == {c \in 1..Len(calls) : calls[c].time = t}

\* C7: the tracker is invoked once for a timestamp whose aggregated batch is
\* non-empty and not at all otherwise, after all sub-tiles of the timestamp
\* and before any sub-tile of the next, with the polygons of all sub-tiles
\* in row-major order.
C7_OneWritePerTimestamp ==
    /\ \A c \in 1..Len(calls) : calls[c].time <= i /\ calls[c].seen = NumTiles
    /\ \A a, b \in 1..Len(calls) : a < b => calls[a].time < calls[b].time
    /\ pc \in {"subtile", "track"} => CallsAt(i) = {}
    /\ pc \in {"classify", "check_stop", "done", "raised"} =>
          /\ Len(results_this_time) = NumTiles
          /\ IF BatchOf(results_this_time) = <<>>
             THEN CallsAt(i) = {}
             ELSE /\ Cardinality(CallsAt(i)) = 1
                  /\ \A c \in CallsAt(i) : calls[c].batch = BatchOf(results_this_time)

\* the tracker was called with the polygons of two sub-tiles
C7_Witness ==
    /\ pc = "check_stop"
    /\ i > 1
    /\ Len(BatchOf(results_this_time)) >= 2
    /\ CallsAt(i) # {}

HasError(results) == \E k \in 1..Len(results) : results[k].kind = "error"

\* C8: a failing sub-tile is caught: it adds nothing to the batch, the other
\* sub-tiles of the timestamp are still visited and their polygons reach
\* the tracker; only the tracker itself ends the run with an error.
C8_SubTileFailureIsolated ==
    /\ pc = "raised" => (calls # <<>> /\ ~calls[Len(calls)].ok)
    /\ polygons_this_time = BatchOf(results_this_time)
    /\ (HasError(results_this_time) /\ pc # "subtile") =>
          /\ Len(results_this_time) = NumTiles
          /\ (pc # "track" /\ BatchOf(results_this_time) # <<>>) =>
                \E c \in CallsAt(i) : calls[c].batch = BatchOf(results_this_time)

\* a sub-tile failed and the polygons of another reached the tracker
C8_Witness ==
    /\ pc = "check_stop"
    /\ results_this_time[1].kind = "error"
    /\ \E c \in CallsAt(i) : calls[c].ok /\ calls[c].batch # <<>>

WithinWindow(prev, acc) == Abs(acc - prev) <= 10 + (Abs(acc) \div 100000)

\* a fixed window of 0.01 ha
FixedTolerance(prev, acc) == Abs(acc - prev) <= 10

MergeRecordUnder(fixed) ==
    \A c \in 1..Len(calls) : \A e \in 1..Len(calls[c].msgs) :
        LET m == calls[c].msgs[e]
            P == calls[c].batch[e]
            before == StoreBefore(c, e)
            G == CurrentGeometry(before, m.fire)
            prev == CurrentAccArea(before, m.fire)
            acc == round2(Area(G \cup P))
        IN m.kind \in {"updated", "ignored"} =>
             /\ P \cap G # {}
             /\ IF (IF fixed THEN FixedTolerance(prev, acc) ELSE WithinWindow(prev, acc))
                THEN LengthAfter(c, e) = m.at
                ELSE /\ LengthAfter(c, e) = m.at + 1
                     /\ Rows[m.at + 1] =
                           [fire |-> m.fire, time |-> calls[c].time,
                            time_area |-> round2(Area(P)), acc_area |-> acc,
                            geometry |-> G \cup P]

\* The merge with the window np.isclose applies: a polygon P matched to fire
\* f with current geometry G appends exactly one record (f, batch time,
\* G u P, area of P rounded, area of G u P rounded) when the rounded area of
\* G u P is farther from f's previous acc_area than 0.01 ha + 1e-5 of
\* itself, and nothing otherwise.
C10_MergeRecord == MergeRecordUnder(FALSE)

\* C10: a polygon P matched to fire f with current geometry G appends
\* exactly one record (f, batch time, G u P, time_area = area of P rounded,
\* acc_area = area of G u P rounded) when acc_area differs from f's previous
\* acc_area by more than 0.01 ha, and nothing when they are within 0.01 ha.
C10_MergeRecordFixedTolerance == MergeRecordUnder(TRUE)

\* a merge appended a record for a polygon overlapping its fire, after
\* another merge was ignored
C10_Witness ==
    \E c \in 1..Len(calls) : \E e, d \in 1..Len(calls[c].msgs) :
        /\ calls[c].msgs[e].kind = "updated"
        /\ calls[c].msgs[d].kind = "ignored"

\* C11: the time_area of a record appended by a merge is the growth of the
\* fire: the record's acc_area minus the fire's previous acc_area, up to
\* the rounding to two decimals, whether the new polygon overlaps the fire
\* in part or in full.
C11_TimeAreaExcludesOverlap ==
    \A c \in 1..Len(calls) : \A e \in 1..Len(calls[c].msgs) :
        LET m == calls[c].msgs[e]
            prev == CurrentAccArea(StoreBefore(c, e), m.fire)
        IN m.kind = "updated" =>
             Abs(Rows[m.at + 1].time_area - (Rows[m.at + 1].acc_area - prev)) <= 2 * atol

\* the minimum area the caller configured: detection_params['min_area_ha'],
\* 1.0 ha when the key is absent
ConfiguredMinArea ==
    IF "min_area_ha" \in DOMAIN args.detection_params
    THEN args.detection_params["min_area_ha"] ELSE 1000

\* C12: every polygon fire_areas hands on has an area of at least the
\* configured min_area_ha (1.0 ha by default), and the polygons and the
\* areas come as two lists of equal length, areas[k] being the area of
\* polygons[k].
C12_MinAreaFilter ==
    (ret.called /\ ret.value.kind = "polygons") =>
        /\ Len(ret.value.polygons) = Len(ret.value.areas)
        /\ \A k \in 1..Len(ret.value.polygons) :
              /\ ret.value.areas[k] = Area(ret.value.polygons[k])
              /\ Area(ret.value.polygons[k]) >= ConfiguredMinArea

\* C13: on a tile that is not blank, with any method, tol, upscale_factor,
\* blur_sigma and threshold_value, fire_areas completes the call of the
\* detector and returns polygons or no detection; it does not fail.
C13_DetectionOptionsAccepted ==
    (ret.called /\ ret.fn = "fire_areas" /\ args.tile.kind = "image") =>
        ret.value.kind \in {"polygons", "none"}

\* the instant an emitted text stands for
Instant(text) == fromisoformat(SubSeq(text, 1, 3))

BoxAt(r, c) == ret.value[r * args.n_cols + c + 1]

\* a and b agree up to the rounding of a few floating-point operations on
\* coordinates of magnitude up to m
Near(a, b, m) == Abs(a - b) <= 32 * ulp(m)

\* equality of coordinates
Same(a, b, m) == a = b

GridPartitionUnder(exact) ==
    (ret.called /\ ret.fn = "split_bbox") =>
        LET xmin == args.bbox[1]
            ymin == args.bbox[2]
            xmax == args.bbox[3]
            ymax == args.bbox[4]
            Agree(a, b, m) == IF exact THEN Same(a, b, m) ELSE Near(a, b, m)
        IN /\ Len(ret.value) = args.n_rows * args.n_cols
           /\ \A r \in 0..(args.n_rows - 1) : \A c \in 0..(args.n_cols - 1) :
                 LET b == BoxAt(r, c)
                 IN /\ IF exact THEN b[1] < b[3] /\ b[2] < b[4]
                                ELSE b[1] <= b[3] /\ b[2] <= b[4]
                    /\ c = 0 => b[1] = xmin
                    /\ r = 0 => b[2] = ymin
                    /\ c > 0 => /\ Agree(b[1], BoxAt(r, c - 1)[3], xmax)
                                /\ b[2] = BoxAt(r, c - 1)[2]
                                /\ b[4] = BoxAt(r, c - 1)[4]
                    /\ r > 0 => /\ Agree(b[2], BoxAt(r - 1, c)[4], ymax)
                                /\ b[1] = BoxAt(r - 1, c)[1]
                                /\ b[3] = BoxAt(r - 1, c)[3]
                    /\ c = args.n_cols - 1 => Agree(b[3], xmax, xmax)
                    /\ r = args.n_rows - 1 => Agree(b[4], ymax, ymax)
                    /\ Agree(b[3] - b[1], BoxAt(0, 0)[3] - BoxAt(0, 0)[1], xmax)
                    /\ Agree(b[4] - b[2], BoxAt(0, 0)[4] - BoxAt(0, 0)[2], ymax)

\* C15 as stated: split_bbox returns n_rows x n_cols sub-boxes in row-major
\* order, all of equal width and height, each next to its neighbours with
\* the shared edge in common, the outer edges being those of the bounding
\* box: no gaps, no overlapping interiors.
C15_GridPartitionExact == GridPartitionUnder(TRUE)

\* C15: split_bbox returns n_rows x n_cols sub-boxes in row-major order,
\* the first starting at (lon_min, lat_min); the boxes of a row share their
\* latitudes and those of a column their longitudes; widths, heights, the
\* edges of neighbours and the outer edges agree up to floating-point
\* rounding (32 units in the last place of the greatest coordinate).
C15_GridPartition == GridPartitionUnder(FALSE)

\* a grid of several rows and three columns in which rounding separates the
\* edges of two neighbours
C15_Witness ==
    /\ ret.called
    /\ ret.fn = "split_bbox"
    /\ args.n_rows >= 2
    /\ args.n_cols = 3
    /\ \E c \in 1..2 : BoxAt(1, c)[1] # BoxAt(1, c - 1)[3]

\* C16: after every tracker write, the one that creates the store as well as
\* every update, the store has exactly the columns fire, time, time_area,
\* acc_area, geometry, in that order.
C16_CanonicalSchema ==
    shapefile.exists =>
        shapefile.cols = <<"fire", "time", "time_area", "acc_area", "geometry">>

\* the store as update call c read it
StoreAtRead(c) == SubSeq(Rows, 1, calls[c].msgs[1].at)

\* the fires of the store read by call c whose current geometry, when
\* element e is about to be processed, intersects that element
FiresHit(c, e) ==
    {f \in FiresIn(StoreAtRead(c)) :
        intersects(calls[c].batch[e], CurrentGeometry(StoreBefore(c, e), f))}

Lowest(S) == CHOOSE f \in S : \A g \in S : f <= g

\* the row at which identity f first appears
FirstRow(rows, f) ==
    CHOOSE a \in 1..Len(rows) : rows[a].fire = f /\ \A b \in 1..(a - 1) : rows[b].fire # f

\* C17: in an update, a polygon that intersects the current geometry of one
\* or several fires of the store is attached to the lowest-numbered of
\* them and to no other: at most one record is appended, under that
\* identity.  The identities first appear in the store in ascending order,
\* which is the order of the scan.
C17_SingleAttachment ==
    /\ \A f, g \in FiresIn(Rows) : f < g => FirstRow(Rows, f) < FirstRow(Rows, g)
    /\ \A c \in 1..Len(calls) : \A e \in 1..Len(calls[c].msgs) :
          LET m == calls[c].msgs[e]
          IN (calls[c].op = "update" /\ FiresHit(c, e) # {}) =>
                /\ m.kind \in {"updated", "ignored"}
                /\ m.fire = Lowest(FiresHit(c, e))
                /\ LengthAfter(c, e) \in {m.at, m.at + 1}
                /\ m.kind = "updated" <=> LengthAfter(c, e) = m.at + 1
                /\ m.kind = "updated" => Rows[m.at + 1].fire = Lowest(FiresHit(c, e))

\* a polygon over two fires of the store was attached to the lower one
C17_Witness ==
    \E c \in 1..Len(calls) : \E e \in 1..Len(calls[c].msgs) :
        /\ calls[c].op = "update"
        /\ Cardinality(FiresHit(c, e)) >= 2
        /\ calls[c].msgs[e].kind = "updated"
        /\ Rows[calls[c].msgs[e].at + 1].fire = 1

\* C18: in an update the identities a polygon can be matched to are those
\* of the store as it was read: a polygon that intersects the current
\* geometry of none of them opens a new fire under an identity not yet in
\* the store, even when it overlaps a fire opened earlier in the batch; a
\* matched polygon meets the current geometry of its fire, the records the
\* batch has appended so far included, and the record of a merge is the
\* union with that geometry.
C18_CandidatesFixedAtRead ==
    \A c \in 1..Len(calls) : \A e \in 1..Len(calls[c].msgs) :
        LET m == calls[c].msgs[e]
            P == calls[c].batch[e]
            before == StoreBefore(c, e)
        IN calls[c].op = "update" =>
             /\ m.kind \in {"updated", "ignored", "new"}
             /\ m.kind \in {"updated", "ignored"} =>
                   /\ m.fire \in FiresIn(StoreAtRead(c))
                   /\ intersects(P, CurrentGeometry(before, m.fire))
             /\ m.kind = "updated" =>
                   Rows[m.at + 1].geometry = CurrentGeometry(before, m.fire) \cup P
             /\ FiresHit(c, e) = {} =>
                   /\ m.kind = "new"
                   /\ m.fire \notin FiresIn(before)
                   /\ Rows[m.at + 1].fire = m.fire
                   /\ Rows[m.at + 1].geometry = P

\* two overlapping polygons of one batch opened two fires
C18_Witness ==
    \E c \in 1..Len(calls) : \E d, e \in 1..Len(calls[c].msgs) :
        /\ calls[c].op = "update"
        /\ d < e
        /\ calls[c].msgs[d].kind = "new"
        /\ calls[c].msgs[e].kind = "new"
        /\ intersects(calls[c].batch[d], calls[c].batch[e])
        /\ calls[c].msgs[d].fire # calls[c].msgs[e].fire

\* a polygon was matched to a fire of the store through the geometry an
\* earlier polygon of the same batch had added to it
C18_SameBatchGeometry ==
    \E c \in 1..Len(calls) : \E d, e \in 1..Len(calls[c].msgs) :
        /\ calls[c].op = "update"
        /\ d < e
        /\ calls[c].msgs[d].kind = "updated"
        /\ calls[c].msgs[e].kind \in {"updated", "ignored"}
        /\ calls[c].msgs[e].fire = calls[c].msgs[d].fire
        /\ ~intersects(calls[c].batch[e],
                       CurrentGeometry(StoreAtRead(c), calls[c].msgs[e].fire))

====
